---- MODULE Spec2Model ----
(***************************************************************************)
(* guMCP: the session router of src/servers/remote.py (handle_sse,         *)
(* handle_message) and the Discord adapter of src/servers/discord/main.py  *)
(* (create_server, start_bot_background and the readiness gate that opens  *)
(* every request handler).                                                 *)
(*                                                                         *)
(* The process is one asyncio event loop: code between two awaits runs     *)
(* without interleaving, so every action below is one such stretch.        *)
(***************************************************************************)
EXTENDS Integers, Sequences, FiniteSets, TLC

\* ---------------------------------------------------------------- bounds
MaxConns == 2          \* connections (handle_sse invocations) in one run
MaxOps == 2            \* adapter requests (list/read/call) in one run
ClockGrain == 3        \* instants at which the clock is observed during one timeout
MaxUriLen == 4         \* length of a resource URI, in the units of UriChars
MaxId == 12            \* guild and channel ids
MaxOver == 3           \* how far a requested number goes beyond the limits of a clamp
MaxDirs == 3           \* directories under src/servers
MaxTextLen == 3        \* length of a user id and of an api key
MaxPort == 30          \* port numbers on the command line

\* ------------------------------------------------------ program constants
ReadyTimeout == 30     \* asyncio.wait_for(server.bot_ready.wait(), timeout=30)
ListMin == 1           \* list_members: min(1000, max(1, int(arguments.get("limit", 50))))
ListMax == 1000
ListDefault == 50
BanMinDays == 0        \* ban_member: min(7, max(0, int(arguments.get("delete_message_days", 0))))
BanMaxDays == 7
BanDefaultDays == 0
ReadDefault == 10      \* read_messages: int(arguments.get("limit", 10))
DefaultPort == 8000    \* parser.add_argument("--port", type=int, default=8000)
MaxWaitTime == 120     \* max_wait_time = 120 of authenticate_and_save_credentials

Conns == 1..MaxConns
Ops == 1..MaxOps

\* ---------------------------------------------------------------- strings
\* A string is a sequence of characters.
ServerNames == { <<"d">> }
EncodedKeys == { <<"a">>, <<"b", ":", "k">> }

\* str.split(":") : the list of the parts between the separators
RECURSIVE SplitColon(_)
SplitColon(s) ==
    IF \A i \in 1..Len(s) : s[i] # ":"
    THEN << s >>
    ELSE LET i == CHOOSE j \in 1..Len(s) :
                      s[j] = ":" /\ \A h \in 1..(j - 1) : s[h] # ":"
         IN  << SubSeq(s, 1, i - 1) >> \o SplitColon(SubSeq(s, i + 1, Len(s)))

\* session_key = f"{server_name}:{session_key_encoded}"
SessionKey(server_name, session_key_encoded) ==
    server_name \o << ":" >> \o session_key_encoded

\* user_id of handle_sse
UserId(session_key_encoded) ==
    IF \E i \in 1..Len(session_key_encoded) : session_key_encoded[i] = ":"
    THEN SplitColon(session_key_encoded)[1]
    ELSE session_key_encoded

\* api_key of handle_sse (lines 92, 94-96): the second part, None without ":"
ApiKey(session_key_encoded) ==
    IF \E i \in 1..Len(session_key_encoded) : session_key_encoded[i] = ":"
    THEN SplitColon(session_key_encoded)[2]
    ELSE << >>

NoKey == << >>
NoUser == << >>
Users == { UserId(e) : e \in EncodedKeys }

VARIABLES
    user_session_transports,  \* dict: session key -> the connection whose transport it is
    user_server_instances,    \* dict: session key -> adapter instance id
    pc,                       \* position of each handle_sse invocation
    connKey,                  \* session_key of each invocation (while it is bound)
    connInst,                 \* server_instance of each invocation (0: not bound)
    factoryCalls,             \* dict: session key -> number of server_factory calls
    instUser,                 \* server.user_id of every instance created so far
    bot_task,                 \* server.bot_task of every instance
    bot_ready,                \* server.bot_ready of every instance
    bot,                      \* the module global bot of discord/main.py (0: None)
    onReady,                  \* the instance whose on_ready is registered on bot (0: none)
    credentials,              \* users that have stored credentials
    opPc,                     \* position of each request handler
    opConn,                   \* the connection a request arrived on (while in its handler)
    opInst,                   \* the instance (closure variable server) of a request in its handler
    waited,                   \* time a request has spent in wait_for (0 outside it)
    posted,                   \* the last message POST: its session key and what answered it
    req,                      \* the request a handler under study was called with
    hpc,                      \* the position of that handler
    res,                      \* what that handler returned or raised
    calls                     \* the upstream calls that handler has made

vars == << user_session_transports, user_server_instances, pc, connKey, connInst,
           factoryCalls, instUser, bot_task, bot_ready, bot, onReady, credentials,
           opPc, opConn, opInst, waited, posted, req, hpc, res, calls >>

handlerVars == << req, hpc, res, calls >>
routerVars == << user_session_transports, user_server_instances, pc, connKey,
                 connInst, factoryCalls, posted >>
adapterVars == << bot_task, bot_ready, bot, onReady >>
opVars == << opPc, opConn, opInst, waited >>

\* dict helpers
Put(d, k, v) == [ x \in (DOMAIN d) \cup {k} |-> IF x = k THEN v ELSE d[x] ]
Del(d, k) == [ x \in (DOMAIN d) \ {k} |-> d[x] ]
EmptyDict == [ x \in {} |-> 0 ]

NumInstances == Len(instUser)

NotFound == 404
NoReq == [ kind |-> "none" ]
NoRes == [ kind |-> "none", error |-> "", at |-> "" ]
At(position) == [ at |-> position, step |-> 0 ]
NoPost == [ key |-> NoKey, answer |-> 0 ]

\* the dicts of remote.py are empty, no adapter instance exists, bot is None
InitStores ==
    /\ user_session_transports = EmptyDict
    /\ user_server_instances = EmptyDict
    /\ pc = [ c \in Conns |-> "idle" ]
    /\ connKey = [ c \in Conns |-> NoKey ]
    /\ connInst = [ c \in Conns |-> 0 ]
    /\ factoryCalls = EmptyDict
    /\ instUser = << >>
    /\ bot_task = << >>
    /\ bot_ready = << >>
    /\ bot = 0
    /\ onReady = 0
    /\ opPc = [ o \in Ops |-> "idle" ]
    /\ opConn = [ o \in Ops |-> 0 ]
    /\ opInst = [ o \in Ops |-> 0 ]
    /\ waited = [ o \in Ops |-> 0 ]
    /\ posted = NoPost

Init ==
    /\ InitStores
    /\ credentials \in SUBSET Users
    /\ req = NoReq
    /\ hpc = At("none")
    /\ res = NoRes
    /\ calls = << >>


\* ------------------------------------------------------------ the router

\* line 110: user_session_transports[session_key] = sse_transport
RegisterTransport(k, c) == Put(user_session_transports, k, c)

\* (mutant) the membership test dropped: every connection builds an instance
InstanceMissingAlways(k) == TRUE

\* line 114: if session_key not in user_server_instances
InstanceMissing(k) == k \notin DOMAIN user_server_instances

\* (mutant) the built instance is used but never stored
StoreInstanceDropped(k, inst) == user_server_instances

\* line 116: user_server_instances[session_key] = server_instance
StoreInstance(k, inst) == Put(user_server_instances, k, inst)

\* (mutant) the finally clause forgets the transport
ReleaseTransportNoop(k) == user_session_transports

\* lines 137-138: if session_key in user_session_transports: del ...
ReleaseTransport(k) ==
    IF k \in DOMAIN user_session_transports
    THEN Del(user_session_transports, k)
    ELSE user_session_transports

\* create_server: a fresh Server with bot_task = None and an unset bot_ready
NewInstance(user_id) ==
    /\ instUser' = Append(instUser, user_id)
    /\ bot_task' = Append(bot_task, "None")
    /\ bot_ready' = Append(bot_ready, FALSE)

CountCall(k) ==
    Put(factoryCalls, k, IF k \in DOMAIN factoryCalls THEN factoryCalls[k] + 1 ELSE 1)

\* handle_sse from its entry to the first await (lines 87-121).  factoryOk and
\* initOk are the outcomes of the two calls into the adapter module:
\* server_factory(user_id, api_key) and get_init_options(server_instance)
\* either return or raise.
Connect(c, server_name, session_key_encoded, factoryOk, initOk) ==
    LET k == SessionKey(server_name, session_key_encoded)
        fresh == NumInstances + 1
    IN  /\ pc[c] = "idle"
        /\ \A d \in Conns : d < c => pc[d] # "idle"   \* ids in order of arrival
        /\ connKey' = [ connKey EXCEPT ![c] =
               IF (InstanceMissing(k) /\ ~ factoryOk) \/ ~ initOk THEN NoKey ELSE k ]
        /\ user_session_transports' = RegisterTransport(k, c)
        /\ IF InstanceMissing(k)
           THEN /\ factoryCalls' = CountCall(k)
                /\ IF factoryOk
                   THEN /\ NewInstance(UserId(session_key_encoded))
                        /\ user_server_instances' = StoreInstance(k, fresh)
                        /\ IF initOk
                           THEN /\ pc' = [ pc EXCEPT ![c] = "bound" ]
                                /\ connInst' = [ connInst EXCEPT ![c] = fresh ]
                           ELSE /\ pc' = [ pc EXCEPT ![c] = "failed" ]
                                /\ UNCHANGED connInst
                   ELSE /\ pc' = [ pc EXCEPT ![c] = "failed" ]
                        /\ UNCHANGED << user_server_instances, connInst, instUser,
                                        bot_task, bot_ready >>
           ELSE /\ UNCHANGED << factoryCalls, user_server_instances, instUser,
                                bot_task, bot_ready >>
                /\ IF initOk
                   THEN /\ pc' = [ pc EXCEPT ![c] = "bound" ]
                        /\ connInst' = [ connInst EXCEPT ![c] = user_server_instances[k] ]
                   ELSE /\ pc' = [ pc EXCEPT ![c] = "failed" ]
                        /\ UNCHANGED connInst
        /\ UNCHANGED << bot, onReady, credentials, opPc, opConn, opInst, waited, posted,
                        handlerVars >>

\* lines 124-129: sse_transport.connect_sse(...) is entered and yields the streams
EnterStream(c) ==
    /\ pc[c] = "bound"
    /\ pc' = [ pc EXCEPT ![c] = "streaming" ]
    /\ UNCHANGED << user_session_transports, user_server_instances, connKey, connInst,
                    factoryCalls, instUser, adapterVars, credentials, opVars, posted,
                    handlerVars >>

\* lines 124-126 and 135-141: connect_sse raises; the finally clause runs
StreamFails(c) ==
    /\ pc[c] = "bound"
    /\ pc' = [ pc EXCEPT ![c] = "aborted" ]
    /\ user_session_transports' = ReleaseTransport(connKey[c])
    /\ connKey' = [ connKey EXCEPT ![c] = NoKey ]
    /\ connInst' = [ connInst EXCEPT ![c] = 0 ]
    /\ UNCHANGED << user_server_instances, factoryCalls, instUser,
                    adapterVars, credentials, opVars, posted, handlerVars >>

\* the requests of connection c that are still inside their handler
InFlight(c) == { o \in Ops : opConn[o] = c /\ opPc[o] \in {"waiting", "ready"} }

\* lines 130-141: server_instance.run(...) returns or raises (the peer went
\* away, the transport broke); its request handlers end with it and the
\* finally clause runs
Disconnect(c) ==
    /\ pc[c] = "streaming"
    /\ pc' = [ pc EXCEPT ![c] = "closed" ]
    /\ user_session_transports' = ReleaseTransport(connKey[c])
    /\ opPc' = [ o \in Ops |-> IF o \in InFlight(c) THEN "cancelled" ELSE opPc[o] ]
    /\ waited' = [ o \in Ops |-> IF o \in InFlight(c) THEN 0 ELSE waited[o] ]
    /\ opConn' = [ o \in Ops |-> IF o \in InFlight(c) THEN 0 ELSE opConn[o] ]
    /\ opInst' = [ o \in Ops |-> IF o \in InFlight(c) THEN 0 ELSE opInst[o] ]
    /\ connKey' = [ connKey EXCEPT ![c] = NoKey ]
    /\ connInst' = [ connInst EXCEPT ![c] = 0 ]
    /\ UNCHANGED << user_server_instances, factoryCalls, instUser,
                    adapterVars, credentials, posted, handlerVars >>

\* (mutant) the POST goes to a registered transport whatever its key
PostAnswerAnyKey(k) ==
    IF DOMAIN user_session_transports = {}
    THEN NotFound
    ELSE user_session_transports[CHOOSE j \in DOMAIN user_session_transports : TRUE]

\* lines 160-166: Response(status_code=404) when the key is not in
\* user_session_transports, else handle_post_message of the transport stored
\* under the key
PostAnswer(k) ==
    IF k \notin DOMAIN user_session_transports
    THEN NotFound
    ELSE user_session_transports[k]

\* handle_message (lines 155-166): 404 when the key has no transport, else the
\* POST goes to the transport registered under the key
HandleMessage(server_name, session_key_encoded) ==
    LET k == SessionKey(server_name, session_key_encoded)
    IN  /\ posted' = [ key |-> k, answer |-> PostAnswer(k) ]
        /\ UNCHANGED << user_session_transports, user_server_instances, pc, connKey,
                        connInst, factoryCalls, instUser, adapterVars, credentials, opVars,
                        handlerVars >>

NextRouter ==
    \/ \E sn \in ServerNames, e \in EncodedKeys : HandleMessage(sn, e)
    \/ \E c \in Conns, sn \in ServerNames, e \in EncodedKeys, f \in BOOLEAN, i \in BOOLEAN :
          Connect(c, sn, e, f, i)
    \/ \E c \in Conns : EnterStream(c)
    \/ \E c \in Conns : StreamFails(c)
    \/ \E c \in Conns : Disconnect(c)

SpecRouter == Init /\ [][NextRouter]_vars


\* ------------------------------------------- the session key derivation

\* names of directories under src/servers that hold a main.py (lines 35-39):
\* discover_servers takes item.name as it is
DirectoryNames == ServerNames \cup { <<"l">>, <<"d", ":", "b">> }

\* values of the {session_key} path parameter (any text without "/")
PathKeys == EncodedKeys \cup { <<"k">>, <<"a", ":", "k">> }

KeyRequests == { [ server_name |-> sn, session_key_encoded |-> e ] :
                     sn \in DirectoryNames, e \in PathKeys }

\* two connections arrive
InitKeys ==
    /\ InitStores
    /\ credentials = {}
    /\ req \in { [ kind |-> "connect", a |-> x, b |-> y ] : x \in KeyRequests, y \in KeyRequests }
    /\ hpc = At("entry")
    /\ res = NoRes
    /\ calls = << >>

\* lines 87-98 for each of the two connections
DeriveKeys ==
    /\ hpc = At("entry")
    /\ req.kind = "connect"
    /\ res' = [ kind |-> "keys",
                a |-> SessionKey(req.a.server_name, req.a.session_key_encoded),
                b |-> SessionKey(req.b.server_name, req.b.session_key_encoded) ]
    /\ hpc' = At("derived")
    /\ UNCHANGED << routerVars, adapterVars, instUser, credentials, opVars, req, calls >>

SpecKeys == InitKeys /\ [][DeriveKeys]_vars


\* ---------------------------------------------------- the Discord adapter

\* get_credentials (lines 73-99): a token, or ValueError when none is stored
HasCredentials(user_id) == user_id \in credentials

\* (mutant) a bot task that has failed is started again by the next request
MustStartBotOrFailed(a) == bot_task[a] \in {"None", "failed_credentials", "failed_start"}

\* lines 147, 171, 422: if server.bot_task is None
MustStartBot(a) == bot_task[a] = "None"

\* A request handler from its entry to its first await (lines 147-149, 171-173,
\* 422-424): the first request of an instance creates the bot task and waits
\* for bot_ready; every other request goes straight on.
StartOp(o, c) ==
    LET a == connInst[c]
    IN  /\ opPc[o] = "idle"
        /\ \A q \in Ops : q < o => opPc[q] # "idle"     \* ids in order of arrival
        /\ pc[c] = "streaming"
        /\ opConn' = [ opConn EXCEPT ![o] = c ]
        /\ opInst' = [ opInst EXCEPT ![o] = a ]
        /\ IF MustStartBot(a)
           THEN /\ bot_task' = [ bot_task EXCEPT ![a] = "scheduled" ]
                /\ opPc' = [ opPc EXCEPT ![o] = "waiting" ]
           ELSE /\ opPc' = [ opPc EXCEPT ![o] = "ready" ]
                /\ UNCHANGED bot_task
        /\ UNCHANGED << routerVars, handlerVars, instUser, bot_ready, bot, onReady, credentials, waited >>

\* start_bot_background up to its await of bot.start (lines 125-138), with
\* create_discord_bot (lines 102-113): the global bot is reused when it is set,
\* else made after the credentials are read; on_ready is registered on it; the
\* credentials are read again for bot.start.
BotTaskRun(a) ==
    /\ bot_task[a] = "scheduled"
    /\ IF bot # 0
       THEN /\ onReady' = a
            /\ bot' = bot
            /\ bot_task' = [ bot_task EXCEPT ![a] =
                   IF HasCredentials(instUser[a]) THEN "starting" ELSE "failed_credentials" ]
       ELSE IF HasCredentials(instUser[a])
            THEN /\ bot' = a
                 /\ onReady' = a
                 /\ bot_task' = [ bot_task EXCEPT ![a] = "starting" ]
            ELSE /\ bot_task' = [ bot_task EXCEPT ![a] = "failed_credentials" ]
                 /\ UNCHANGED << bot, onReady >>
    /\ UNCHANGED << routerVars, handlerVars, instUser, bot_ready, credentials, opVars >>

\* lines 135-138: bot.start raises (login refused, gateway unreachable)
BotStartFails(a) ==
    /\ bot_task[a] = "starting"
    /\ bot_task' = [ bot_task EXCEPT ![a] = "failed_start" ]
    /\ UNCHANGED << routerVars, handlerVars, instUser, bot_ready, bot, onReady, credentials, opVars >>

\* lines 130-133: the bot reports ready and the registered on_ready runs
OnReady ==
    /\ \E a \in 1..NumInstances : bot_task[a] = "starting"
    /\ onReady # 0
    /\ ~ bot_ready[onReady]
    /\ bot_ready' = [ bot_ready EXCEPT ![onReady] = TRUE ]
    /\ UNCHANGED << routerVars, handlerVars, instUser, bot_task, bot, onReady, credentials, opVars >>

\* lines 149, 173, 424: bot_ready.wait() returns inside wait_for
ReadyWake(o) ==
    /\ opPc[o] = "waiting"
    /\ bot_ready[opInst[o]]
    /\ opPc' = [ opPc EXCEPT ![o] = "ready" ]
    /\ waited' = [ waited EXCEPT ![o] = 0 ]
    /\ UNCHANGED << routerVars, handlerVars, instUser, adapterVars, credentials, opConn, opInst >>

\* (mutant) a bare bot_ready.wait(), without wait_for
ExpiredNever(o) == FALSE

\* the deadline of wait_for(..., timeout=30)
Expired(o) == waited[o] >= ReadyTimeout

\* lines 149, 173, 424: wait_for raises TimeoutError out of the handler.  The
\* handler ends; handle_sse is not involved and the connection streams on.
ReadyTimesOut(o) ==
    /\ opPc[o] = "waiting"
    /\ ~ bot_ready[opInst[o]]
    /\ Expired(o)
    /\ opPc' = [ opPc EXCEPT ![o] = "timeout" ]
    /\ waited' = [ waited EXCEPT ![o] = 0 ]
    /\ opConn' = [ opConn EXCEPT ![o] = 0 ]
    /\ opInst' = [ opInst EXCEPT ![o] = 0 ]
    /\ UNCHANGED << routerVars, handlerVars, instUser, adapterVars, credentials >>

\* what the event loop has ready to run: a created task not yet started, a
\* waiter whose event is set, a handler past its gate
LoopBusy ==
    \/ \E a \in 1..NumInstances : bot_task[a] = "scheduled"
    \/ \E o \in Ops : opPc[o] = "ready"
    \/ \E o \in Ops : opPc[o] = "waiting" /\ bot_ready[opInst[o]]

\* the time left until the earliest deadline among the requests inside wait_for
Left(o) == ReadyTimeout - waited[o]
Waiting == { o \in Ops : opPc[o] = "waiting" }
MinLeft == CHOOSE m \in { Left(o) : o \in Waiting } : \A o \in Waiting : m <= Left(o)

\* the clock is observed every TimeStep units and at every deadline
TimeStep == ReadyTimeout \div ClockGrain
Advance == IF 0 < MinLeft /\ MinLeft < TimeStep THEN MinLeft ELSE TimeStep

\* Time passes for every request inside wait_for.  The loop sleeps only when
\* nothing is ready to run, and a deadline that is due is served before more
\* time passes.
Tick ==
    /\ Waiting # {}
    /\ ~ LoopBusy
    /\ \A o \in Waiting : ~ Expired(o)
    /\ waited' = [ o \in Ops |-> IF o \in Waiting THEN waited[o] + Advance ELSE waited[o] ]
    /\ UNCHANGED << routerVars, handlerVars, instUser, adapterVars, credentials, opPc, opConn, opInst >>

\* the handler's first use of the global bot (lines 153, 191, 429): an
\* attribute of None raises AttributeError
UseBot(o) ==
    /\ opPc[o] = "ready"
    /\ opPc' = [ opPc EXCEPT ![o] = IF bot = 0 THEN "fault" ELSE "done" ]
    /\ opConn' = [ opConn EXCEPT ![o] = 0 ]
    /\ opInst' = [ opInst EXCEPT ![o] = 0 ]
    /\ UNCHANGED << routerVars, handlerVars, instUser, adapterVars, credentials, waited >>

\* the user runs the authentication flow: credentials are stored
SaveCredentials(u) ==
    /\ u \notin credentials
    /\ credentials' = credentials \cup {u}
    /\ UNCHANGED << routerVars, handlerVars, instUser, adapterVars, opVars >>

NextAdapter ==
    \/ \E o \in Ops, c \in Conns : StartOp(o, c)
    \/ \E a \in 1..NumInstances : BotTaskRun(a)
    \/ \E a \in 1..NumInstances : BotStartFails(a)
    \/ OnReady
    \/ \E o \in Ops : ReadyWake(o)
    \/ \E o \in Ops : ReadyTimesOut(o)
    \/ Tick
    \/ \E o \in Ops : UseBot(o)
    \/ \E u \in Users : SaveCredentials(u)

Next == NextRouter \/ NextAdapter

Spec == Init /\ [][Next]_vars


\* The router in front of the Discord adapter: create_server and
\* get_initialization_options of discord/main.py (lines 116-124, 851-860)
\* return without raising.
NextDiscord ==
    \/ \E c \in Conns, sn \in ServerNames, e \in EncodedKeys : Connect(c, sn, e, TRUE, TRUE)
    \/ \E c \in Conns : EnterStream(c)
    \/ \E c \in Conns : Disconnect(c)
    \/ NextAdapter

SpecDiscord == Init /\ [][NextDiscord]_vars



\* ------------------------------------------- the tools of the Discord adapter

\* handle_list_tools (lines 225-411): the name and the inputSchema "required"
\* list of every types.Tool it returns
ListedTools == <<
    [ name |-> "send_message",   required |-> {"channel_id", "content"} ],
    [ name |-> "read_messages",  required |-> {"channel_id"} ],
    [ name |-> "add_reaction",   required |-> {"channel_id", "message_id", "emoji"} ],
    [ name |-> "edit_message",   required |-> {"channel_id", "message_id", "content"} ],
    [ name |-> "delete_message", required |-> {"channel_id", "message_id"} ],
    [ name |-> "send_embed",     required |-> {"channel_id", "title"} ],
    [ name |-> "get_user_info",  required |-> {"user_id"} ],
    [ name |-> "send_dm",        required |-> {"user_id", "content"} ],
    [ name |-> "ban_member",     required |-> {"guild_id", "user_id"} ],
    [ name |-> "kick_member",    required |-> {"guild_id", "user_id"} ],
    [ name |-> "mute_member",    required |-> {"guild_id", "user_id", "mute"} ],
    [ name |-> "assign_role",    required |-> {"guild_id", "user_id", "role_id", "add"} ],
    [ name |-> "list_members",   required |-> {"guild_id"} ] >>

ListedNames == { ListedTools[i].name : i \in DOMAIN ListedTools }
Required(n) == (CHOOSE t \in { ListedTools[i] : i \in DOMAIN ListedTools } : t.name = n).required

\* (mutant) the last branch of the chain is missing
DispatchNamesShort ==
    { "send_message", "read_messages", "add_reaction", "edit_message", "delete_message",
      "send_embed", "get_user_info", "send_dm", "ban_member", "kick_member", "mute_member",
      "assign_role" }

\* the names the if/elif chain of handle_call_tool compares with (lines 426,
\* 456, 501, 553, 580, 603, 644, 668, 685, 712, 740, 771, 810)
DispatchNames ==
    { "send_message", "read_messages", "add_reaction", "edit_message", "delete_message",
      "send_embed", "get_user_info", "send_dm", "ban_member", "kick_member", "mute_member",
      "assign_role", "list_members" }

\* (mutant) no branch looks for its keys
CheckedNothing(n) == {}

\* the keys every branch of handle_call_tool looks for before anything else
\* (lines 427, 457, 502, 554, 581, 604, 645, 669, 686, 713, 741, 772, 811)
Checked(n) ==
    CASE n = "send_message"   -> {"channel_id", "content"}
      [] n = "read_messages"  -> {"channel_id"}
      [] n = "add_reaction"   -> {"channel_id", "message_id", "emoji"}
      [] n = "edit_message"   -> {"channel_id", "message_id", "content"}
      [] n = "delete_message" -> {"channel_id", "message_id"}
      [] n = "send_embed"     -> {"channel_id", "title"}
      [] n = "get_user_info"  -> {"user_id"}
      [] n = "send_dm"        -> {"user_id", "content"}
      [] n = "ban_member"     -> {"guild_id", "user_id"}
      [] n = "kick_member"    -> {"guild_id", "user_id"}
      [] n = "mute_member"    -> {"guild_id", "user_id", "mute"}
      [] n = "assign_role"    -> {"guild_id", "user_id", "role_id", "add"}
      [] n = "list_members"   -> {"guild_id"}

\* arguments: dict | None
NoArguments == [ given |-> FALSE, keys |-> {} ]
Arguments(keys) == [ given |-> TRUE, keys |-> keys ]

\* (mutant) only a request without an arguments object is refused
MissingArgumentsNoneOnly(n, arguments) == ~ arguments.given

\* if not arguments or "<key>" not in arguments or ... : None and the empty
\* dict are both falsy
MissingArguments(n, arguments) ==
    \/ ~ arguments.given
    \/ arguments.keys = {}
    \/ \E k \in Checked(n) : k \notin arguments.keys

\* discord.NotFound and discord.Forbidden are subclasses of discord.HTTPException
DiscordErrors == { "NotFound", "Forbidden", "HTTPException" }
Catches(caught, exc) ==
    \/ exc \in caught
    \/ exc \in DiscordErrors /\ "HTTPException" \in caught

\* One place of a handler where the outcome is not the handler's own.
\*   outcomes  what can happen there
\*   caught    the outcomes the code around it turns into a returned text
\* "ok" goes on to the next place; "hit" (the cache had it) and "skip" (the
\* call was not needed) go on without an upstream call; every other outcome
\* that is not caught leaves the handler as an exception.

\* channel = bot.get_channel(...); if not channel: try: await
\* bot.fetch_channel(...) except discord.NotFound: return text
FetchChannel ==
    [ call |-> "bot.fetch_channel", outcomes |-> {"ok", "hit"} \cup DiscordErrors,
      caught |-> {"NotFound"} ]

\* an awaited call of the Discord API inside try/except for the classes caught
Upstream(call, caught) ==
    [ call |-> call, outcomes |-> {"ok"} \cup DiscordErrors, caught |-> caught ]

\* a lookup in the bot's cache: None is answered with a text
Lookup(call) == [ call |-> call, outcomes |-> {"ok", "absent"}, caught |-> {"absent"} ]

\* a test of the bot's own permissions or of the target: refusal is a text
Check(call) == [ call |-> call, outcomes |-> {"ok", "refused"}, caught |-> {"refused"} ]

\* if guild.large and len(guild.members) < limit: await guild.chunk()
Chunk == [ call |-> "guild.chunk", outcomes |-> {"ok", "skip"} \cup DiscordErrors, caught |-> {} ]

\* the branches of handle_call_tool after their argument test (lines 430-841)
\* and the try block of handle_read_resource after the URI is parsed (191-213)
Body(n) ==
    CASE n = "send_message" ->
            << FetchChannel, Upstream("channel.send", {}) >>
      [] n = "read_messages" ->
            << FetchChannel, Upstream("channel.history", {}) >>
      [] n = "add_reaction" ->
            << FetchChannel, Upstream("channel.fetch_message", {"NotFound"}),
               Upstream("message.add_reaction", {"HTTPException"}) >>
      [] n = "edit_message" ->
            << FetchChannel, Upstream("channel.fetch_message", {"NotFound"}),
               Check("message.author"), Upstream("message.edit", {}) >>
      [] n = "delete_message" ->
            << FetchChannel, Upstream("channel.fetch_message", {"NotFound"}),
               Upstream("message.delete", {}) >>
      [] n = "send_embed" ->
            << FetchChannel, Upstream("channel.send", {}) >>
      [] n = "get_user_info" ->
            << Upstream("bot.fetch_user", {"NotFound"}) >>
      [] n = "send_dm" ->
            << Upstream("bot.fetch_user", {"NotFound"}), Upstream("user.create_dm", {}),
               Upstream("dm_channel.send", {}) >>
      [] n = "ban_member" ->
            << Lookup("bot.get_guild"), Check("ban_members"),
               Upstream("guild.ban", {"Forbidden", "NotFound", "HTTPException"}) >>
      [] n = "kick_member" ->
            << Lookup("bot.get_guild"), Check("kick_members"), Lookup("guild.get_member"),
               Upstream("guild.kick", {"Forbidden", "HTTPException"}) >>
      [] n = "mute_member" ->
            << Lookup("bot.get_guild"), Check("mute_members"), Lookup("guild.get_member"),
               Check("member.voice"), Upstream("member.edit", {"Forbidden", "HTTPException"}) >>
      [] n = "assign_role" ->
            << Lookup("bot.get_guild"), Check("manage_roles"), Lookup("guild.get_member"),
               Lookup("guild.get_role"), Check("top_role"),
               Upstream("member.add_roles", {"Forbidden", "HTTPException"}) >>
      [] n = "list_members" ->
            << Lookup("bot.get_guild"), Chunk >>
      [] n = "read_resource" ->
            << FetchChannel, Upstream("channel.history", {}) >>



\* --------------------------------------------------------- resource URIs

\* A URI is a sequence over: the literal "discord:///", the separator, a
\* digit, another character.
Prefix == "discord:///"
Digits == { "0", "1", "2", "3", "4", "5", "6", "7", "8", "9" }
UriChars == { Prefix, "/", "x", "1" }
Uris == UNION { [ 1..n -> UriChars ] : n \in 0..MaxUriLen }

\* uri_str.startswith("discord:///")
StartsWithPrefix(u) == Len(u) >= 1 /\ u[1] = Prefix

\* uri_str.replace("discord:///", "") : every occurrence goes
NotPrefix(ch) == ch # Prefix
RemovePrefix(u) == SelectSeq(u, NotPrefix)

\* path.split("/", 1) : cut at the first separator only
SplitFirstSlash(path) ==
    IF \A i \in 1..Len(path) : path[i] # "/"
    THEN << path >>
    ELSE LET i == CHOOSE j \in 1..Len(path) :
                      path[j] = "/" /\ \A h \in 1..(j - 1) : path[h] # "/"
         IN  << SubSeq(path, 1, i - 1), SubSeq(path, i + 1, Len(path)) >>

\* int(text) raises ValueError unless the text is a number
IsInt(text) == text # << >> /\ \A i \in 1..Len(text) : text[i] \in Digits

\* lines 180-191: the parse of handle_read_resource, up to int(channel_id)
ParseUri(u) ==
    IF ~ StartsWithPrefix(u)
    THEN [ ok |-> FALSE, why |-> "Unexpected URI format", guild_id |-> << >>, channel_id |-> << >> ]
    ELSE LET parts == SplitFirstSlash(RemovePrefix(u))
         IN  IF Len(parts) < 2
             THEN [ ok |-> FALSE, why |-> "Invalid URI format",
                    guild_id |-> << >>, channel_id |-> << >> ]
             ELSE IF ~ IsInt(parts[2])
                  THEN [ ok |-> FALSE, why |-> "invalid literal for int()",
                         guild_id |-> parts[1], channel_id |-> parts[2] ]
                  ELSE [ ok |-> TRUE, why |-> "",
                         guild_id |-> parts[1], channel_id |-> parts[2] ]


\* ------------------------------------------------ one request, start to end

\* what a handler hands back: a text (error is "" when the text is the
\* answer, else what went wrong) or an exception
Text(error, at) == [ kind |-> "text", error |-> error, at |-> at ]
Raise(error, at) == [ kind |-> "raise", error |-> error, at |-> at ]

\* (mutant) only the inner except discord.NotFound is there
ReadResourceCatchesNotFound(exc) == exc = "NotFound"

\* (mutant) the outer clause is except discord.HTTPException
ReadResourceCatchesDiscord(exc) == exc \in DiscordErrors

\* line 215: except Exception around the whole body of handle_read_resource
ReadResourceCatches(exc) == TRUE

\* an exception that the code at its place does not catch: handle_read_resource
\* has its outer except, handle_call_tool has none
Uncaught(kind, exc, at) ==
    IF kind = "read_resource" /\ ReadResourceCatches(exc)
    THEN Text(exc, at)
    ELSE Raise(exc, at)

RequestNames == ListedNames \cup DispatchNames \cup { "no_such_tool" }

KeysOf(n) ==
    (IF n \in ListedNames THEN Required(n) ELSE {})
        \cup (IF n \in DispatchNames THEN Checked(n) ELSE {})
        \cup (IF n \in ListedNames \cup DispatchNames THEN {} ELSE {"channel_id"})

ArgumentSets(n) == { NoArguments } \cup { Arguments(keys) : keys \in SUBSET KeysOf(n) }

\* numeric: whether the id arguments are texts that int() accepts
ToolCalls ==
    UNION { { [ kind |-> "call_tool", name |-> n, arguments |-> a, numeric |-> b, uri |-> << >> ] :
                  a \in ArgumentSets(n), b \in BOOLEAN } : n \in RequestNames }

ResourceReads ==
    { [ kind |-> "read_resource", name |-> "read_resource", arguments |-> NoArguments,
        numeric |-> TRUE, uri |-> u ] : u \in Uris }

\* a list_tools request
ToolListings ==
    { [ kind |-> "list_tools", name |-> "list_tools", arguments |-> NoArguments,
        numeric |-> TRUE, uri |-> << >> ] }

\* The adapter as a request can find it: new, with or without stored
\* credentials; bot started and ready; bot started and not ready (an earlier
\* request timed out); bot task failed on credentials or in bot.start.
AdapterStates ==
    { [ task |-> "None",               ready |-> FALSE, bot |-> 0, creds |-> {} ],
      [ task |-> "None",               ready |-> FALSE, bot |-> 0, creds |-> { <<"a">> } ],
      [ task |-> "starting",           ready |-> TRUE,  bot |-> 1, creds |-> { <<"a">> } ],
      [ task |-> "starting",           ready |-> FALSE, bot |-> 1, creds |-> { <<"a">> } ],
      [ task |-> "failed_credentials", ready |-> FALSE, bot |-> 0, creds |-> {} ],
      [ task |-> "failed_start",       ready |-> FALSE, bot |-> 1, creds |-> { <<"a">> } ] }

ToolKey == SessionKey(<<"d">>, <<"a">>)

\* one connection of user "a" is streaming on the instance of its key; a
\* call_tool or read_resource request is about to arrive on it
InitTool ==
    /\ user_session_transports = Put(EmptyDict, ToolKey, 1)
    /\ user_server_instances = Put(EmptyDict, ToolKey, 1)
    /\ pc = [ c \in Conns |-> IF c = 1 THEN "streaming" ELSE "idle" ]
    /\ connKey = [ c \in Conns |-> IF c = 1 THEN ToolKey ELSE NoKey ]
    /\ connInst = [ c \in Conns |-> IF c = 1 THEN 1 ELSE 0 ]
    /\ factoryCalls = Put(EmptyDict, ToolKey, 1)
    /\ instUser = << UserId(<<"a">>) >>
    /\ \E st \in AdapterStates :
          /\ bot_task = << st.task >>
          /\ bot_ready = << st.ready >>
          /\ bot = st.bot
          /\ onReady = st.bot
          /\ credentials = st.creds
    /\ opPc = [ o \in Ops |-> "idle" ]
    /\ opConn = [ o \in Ops |-> 0 ]
    /\ opInst = [ o \in Ops |-> 0 ]
    /\ waited = [ o \in Ops |-> 0 ]
    /\ posted = NoPost
    /\ req \in ToolCalls \cup ResourceReads \cup ToolListings
    /\ hpc = At("entry")
    /\ res = NoRes
    /\ calls = << >>

\* the handler is entered: the readiness gate of lines 171-173 and 422-424
Arrive ==
    /\ req.kind \in {"call_tool", "read_resource"}
    /\ StartOp(1, 1)

\* the handler returns or raises
Finish(result, made) ==
    /\ res' = result
    /\ calls' = made
    /\ hpc' = At("end")
    /\ opPc' = [ opPc EXCEPT ![1] = IF result.kind = "raise" THEN "fault" ELSE "done" ]
    /\ opConn' = [ opConn EXCEPT ![1] = 0 ]
    /\ opInst' = [ opInst EXCEPT ![1] = 0 ]
    /\ UNCHANGED << routerVars, instUser, adapterVars, credentials, waited, req >>

EnterBody ==
    /\ hpc' = [ at |-> "body", step |-> 1 ]
    /\ UNCHANGED << routerVars, instUser, adapterVars, credentials, opVars, req, res, calls >>

\* handle_call_tool past the gate: the if/elif chain on name, the final raise
\* of line 843, and the argument test that opens the branch taken
CallToolDispatch ==
    /\ opPc[1] = "ready"
    /\ hpc = At("entry")
    /\ req.kind = "call_tool"
    /\ IF req.name \notin DispatchNames
       THEN Finish(Raise("ValueError", "Unknown tool"), calls)
       ELSE IF MissingArguments(req.name, req.arguments)
            THEN Finish(Raise("ValueError", "Missing required"), calls)
            ELSE EnterBody

\* handle_read_resource past the gate (lines 175-191): a URI that does not
\* parse raises ValueError inside the try
ReadResourceParse ==
    /\ opPc[1] = "ready"
    /\ hpc = At("entry")
    /\ req.kind = "read_resource"
    /\ IF ParseUri(req.uri).ok
       THEN EnterBody
       ELSE Finish(Uncaught("read_resource", "ValueError", ParseUri(req.uri).why), calls)

\* one place of the body with outcome x.  The first place reads the global
\* bot (AttributeError when it is None) and converts an id with int().
BodyStep(x) ==
    /\ opPc[1] = "ready"
    /\ hpc.at = "body"
    /\ LET body == Body(req.name)
           place == body[hpc.step]
           made == IF x \in {"hit", "skip", "absent", "refused"}
                   THEN calls
                   ELSE Append(calls, place.call)
       IN  /\ x \in place.outcomes
           /\ IF hpc.step = 1 /\ bot = 0
              THEN /\ x = "ok"
                   /\ Finish(Uncaught(req.kind, "AttributeError", "bot"), calls)
              ELSE IF hpc.step = 1 /\ ~ req.numeric
              THEN /\ x = "ok"
                   /\ Finish(Uncaught(req.kind, "ValueError", "invalid literal for int()"), calls)
              ELSE IF x \in {"ok", "hit", "skip"}
              THEN IF hpc.step = Len(body)
                   THEN Finish(Text("", place.call), made)
                   ELSE /\ hpc' = [ at |-> "body", step |-> hpc.step + 1 ]
                        /\ calls' = made
                        /\ UNCHANGED << routerVars, instUser, adapterVars, credentials,
                                        opVars, req, res >>
              ELSE IF Catches(place.caught, x)
              THEN Finish(Text(x, place.call), made)
              ELSE Finish(Uncaught(req.kind, x, place.call), made)

Outcomes == { "ok", "hit", "skip", "absent", "refused" } \cup DiscordErrors

\* (mutant) the tools are listed only once the bot of the instance is ready
ToolDescriptorsWhenReady(a) == IF bot_ready[a] THEN ListedTools ELSE << >>

\* lines 229-411: the list literal handle_list_tools returns, the same for
\* every instance
ToolDescriptors(a) == ListedTools

\* handle_list_tools (lines 225-411), called once more: it logs and returns,
\* without a gate and without an await
ListTools ==
    /\ req.kind = "list_tools"
    /\ hpc.step < MaxOps
    /\ res' = [ kind |-> "tools", error |-> "", at |-> "", tools |-> ToolDescriptors(1) ]
    /\ hpc' = [ at |-> "end", step |-> hpc.step + 1 ]
    /\ UNCHANGED << routerVars, adapterVars, instUser, credentials, opVars, req, calls >>

NextTool ==
    \/ Arrive
    \/ BotTaskRun(1)
    \/ BotStartFails(1)
    \/ OnReady
    \/ ReadyWake(1)
    \/ ReadyTimesOut(1)
    \/ Tick
    \/ CallToolDispatch
    \/ ReadResourceParse
    \/ \E x \in Outcomes : BodyStep(x)
    \/ ListTools

SpecTool == InitTool /\ [][NextTool]_vars


\* ------------------------------------------- the round trip of resource URIs

\* str(n) of a natural number: its decimal digits
DigitOf(d) == CASE d = 0 -> "0" [] d = 1 -> "1" [] d = 2 -> "2" [] d = 3 -> "3" [] d = 4 -> "4"
                [] d = 5 -> "5" [] d = 6 -> "6" [] d = 7 -> "7" [] d = 8 -> "8" [] d = 9 -> "9"
RECURSIVE Str(_)
Str(n) == IF n < 10 THEN << DigitOf(n) >> ELSE Append(Str(n \div 10), DigitOf(n % 10))

\* int(text) of a text that IsInt accepts
ValueOf(ch) == CHOOSE d \in 0..9 : DigitOf(d) = ch
RECURSIVE IntOf(_)
IntOf(text) ==
    IF text = << >> THEN 0
    ELSE 10 * IntOf(SubSeq(text, 1, Len(text) - 1)) + ValueOf(text[Len(text)])

\* (mutant) the guild id and the channel id change places
BuildUriSwapped(guild_id, channel_id) == << Prefix >> \o Str(channel_id) \o << "/" >> \o Str(guild_id)

\* line 158: uri=f"discord:///{guild.id}/{channel.id}"
BuildUri(guild_id, channel_id) == << Prefix >> \o Str(guild_id) \o << "/" >> \o Str(channel_id)

Ids == 1..MaxId

\* a text channel of a guild the bot is in
InitUri ==
    /\ InitStores
    /\ credentials = {}
    /\ req \in { [ kind |-> "resource", guild |-> g, channel |-> c ] : g \in Ids, c \in Ids }
    /\ hpc = At("entry")
    /\ res = NoRes
    /\ calls = << >>

\* handle_list_resources builds the URI of the channel (lines 153-162)
ListResource ==
    /\ hpc = At("entry")
    /\ req.kind = "resource"
    /\ res' = [ kind |-> "uri", error |-> "", at |-> "",
                uri |-> BuildUri(req.guild, req.channel) ]
    /\ hpc' = At("listed")
    /\ UNCHANGED << routerVars, adapterVars, instUser, credentials, opVars, req, calls >>

\* handle_read_resource takes that URI apart (lines 179-191): guild_id stays a
\* text, channel_id goes through int()
ReadBack ==
    /\ hpc = At("listed")
    /\ LET p == ParseUri(res.uri)
       IN  res' = [ kind |-> "decoded", error |-> p.why, at |-> "", uri |-> res.uri,
                    guild_id |-> p.guild_id,
                    channel_id |-> IF p.ok THEN IntOf(p.channel_id) ELSE 0 ]
    /\ hpc' = At("decoded")
    /\ UNCHANGED << routerVars, adapterVars, instUser, credentials, opVars, req, calls >>

SpecUri == InitUri /\ [][ListResource \/ ReadBack]_vars


\* ------------------------------------------------ page sizes and day counts

Min2(a, b) == IF a <= b THEN a ELSE b
Max2(a, b) == IF a >= b THEN a ELSE b

\* an optional numeric argument: absent, or an integer
Absent == [ given |-> FALSE, value |-> 0 ]
Given(n) == [ given |-> TRUE, value |-> n ]

\* int(arguments.get(key, default))
GetInt(option, default) == IF option.given THEN option.value ELSE default

\* (mutant) the requested limit is used as it comes
ListLimitUnclamped(option) == GetInt(option, ListDefault)

\* line 815: limit = min(1000, max(1, int(arguments.get("limit", 50))))
ListLimit(option) == Min2(ListMax, Max2(ListMin, GetInt(option, ListDefault)))

\* (mutant) the requested day count is used as it comes
BanDaysUnclamped(option) == GetInt(option, BanDefaultDays)

\* line 692: delete_message_days = min(7, max(0, int(arguments.get("delete_message_days", 0))))
BanDays(option) == Min2(BanMaxDays, Max2(BanMinDays, GetInt(option, BanDefaultDays)))

\* line 461: limit = int(arguments.get("limit", 10))
ReadLimit(option) == GetInt(option, ReadDefault)

\* len(members[:n]) of a list of count members
SliceLen(count, n) == IF n >= 0 THEN Min2(count, n) ELSE Max2(count + n, 0)

\* the numbers a caller may send: around both ends of the clamps, and a large one
Requested ==
    { Absent } \cup { Given(n) : n \in ((0 - MaxOver)..(ListMax + MaxOver)) \cup { 100000 } }

\* sizes of guild.members
MemberCounts == { 0, ListMin, ListDefault, ListMax + MaxOver }

InitLimits ==
    /\ InitStores
    /\ credentials = {}
    /\ req \in { [ kind |-> "limit", name |-> "list_members", option |-> o, members |-> m ] :
                     o \in Requested, m \in MemberCounts }
          \cup { [ kind |-> "limit", name |-> n, option |-> o, members |-> 0 ] :
                     n \in { "ban_member", "read_messages" }, o \in Requested }
    /\ hpc = At("entry")
    /\ res = NoRes
    /\ calls = << >>

\* what a tool does with its number: used is the number it works with,
\* returned the number of members in the answer of list_members
Used(n, returned) == [ kind |-> "used", error |-> "", at |-> "", value |-> n, returned |-> returned ]

\* list_members (lines 815-826): members = list(guild.members)[:limit]
ListMembersLimit ==
    /\ hpc = At("entry")
    /\ req.kind = "limit" /\ req.name = "list_members"
    /\ res' = Used(ListLimit(req.option), SliceLen(req.members, ListLimit(req.option)))
    /\ hpc' = At("end")
    /\ UNCHANGED << routerVars, adapterVars, instUser, credentials, opVars, req, calls >>

\* ban_member (lines 692-702): guild.ban(..., delete_message_days=delete_message_days)
BanMemberDays ==
    /\ hpc = At("entry")
    /\ req.kind = "limit" /\ req.name = "ban_member"
    /\ res' = Used(BanDays(req.option), 0)
    /\ hpc' = At("end")
    /\ UNCHANGED << routerVars, adapterVars, instUser, credentials, opVars, req, calls >>

\* read_messages (lines 461-477): channel.history(limit=limit)
ReadMessagesLimit ==
    /\ hpc = At("entry")
    /\ req.kind = "limit" /\ req.name = "read_messages"
    /\ res' = Used(ReadLimit(req.option), 0)
    /\ hpc' = At("end")
    /\ UNCHANGED << routerVars, adapterVars, instUser, credentials, opVars, req, calls >>

SpecLimits == InitLimits /\ [][ListMembersLimit \/ BanMemberDays \/ ReadMessagesLimit]_vars


\* ------------------------------------------------------- discover_servers

\* What a directory under src/servers holds:
\*   "no_main"    no main.py
\*   "raises"     main.py raises an Exception while it loads
\*   "no_server"  main.py loads, has no attribute server
\*   "no_options" main.py loads, has no attribute get_initialization_options
\*   "neither"    main.py loads, has neither
\*   "adapter"    main.py loads and has both
Contents == { "no_main", "raises", "no_server", "no_options", "neither", "adapter" }
Directories == 1..MaxDirs

\* line 40: if server_file.exists()
HasMain(content) == content # "no_main"

\* lines 41-47 inside try, line 65 except Exception: exec_module raised
LoadRaises(content) == content = "raises"

\* (mutant) the hasattr test is dropped: whatever loads is registered
ExposesBothAlways(content) == TRUE

\* lines 50-52: hasattr(server_module, "server") and
\* hasattr(server_module, "get_initialization_options")
ExposesBoth(content) == content \notin { "no_server", "no_options", "neither" }

\* the directories of one installation; servers = {} (line 20)
InitDiscover ==
    /\ InitStores
    /\ credentials = {}
    /\ req \in { [ kind |-> "discover", contents |-> f ] : f \in [ Directories -> Contents ] }
    /\ hpc = At("entry")
    /\ res = [ kind |-> "servers", error |-> "", at |-> "", servers |-> {}, seen |-> {} ]
    /\ calls = << >>

\* one turn of the loop of line 35, in whatever order iterdir yields: the
\* directory is registered (line 59), or skipped with a warning (62-64) or an
\* error log (65-66), and the loop goes on
DiscoverNext(d) ==
    /\ req.kind = "discover"
    /\ d \notin res.seen
    /\ LET content == req.contents[d]
           registered == HasMain(content) /\ ~ LoadRaises(content) /\ ExposesBoth(content)
       IN  res' = [ res EXCEPT !.seen = @ \cup {d},
                               !.servers = IF registered THEN @ \cup {d} ELSE @ ]
    /\ hpc' = IF res'.seen = Directories THEN At("end") ELSE At("loop")
    /\ UNCHANGED << routerVars, adapterVars, instUser, credentials, opVars, req, calls >>

SpecDiscover == InitDiscover /\ [][\E d \in Directories : DiscoverNext(d)]_vars


\* ------------------------------------------------------ session addressing

\* user ids: texts without ":" ; api keys: texts that may hold ":" inside
UserIdTexts == UNION { [ 1..n -> { "a", "b" } ] : n \in 1..MaxTextLen }
ApiKeyTexts ==
    { t \in UNION { [ 1..n -> { "k", ":" } ] : n \in 1..MaxTextLen } :
          t[1] # ":" /\ t[Len(t)] # ":" }
NoApiKey == << >>

\* the {session_key} path parameter of a client: "{user_id}" or
\* "{user_id}:{api_key}" (line 86)
Encode(user_id, api_key) ==
    IF api_key = NoApiKey THEN user_id ELSE user_id \o << ":" >> \o api_key

\* a client connects as a user, with or without an api key
InitAddress ==
    /\ InitStores
    /\ credentials = {}
    /\ req \in { [ kind |-> "address", user_id |-> u, api_key |-> k,
                   session_key_encoded |-> Encode(u, k) ] :
                     u \in UserIdTexts, k \in ApiKeyTexts \cup { NoApiKey } }
    /\ hpc = At("entry")
    /\ res = NoRes
    /\ calls = << >>

\* lines 87-98 and 115: what handle_sse hands to server_factory(user_id, api_key)
DecodeAddress ==
    /\ hpc = At("entry")
    /\ req.kind = "address"
    /\ res' = [ kind |-> "factory", error |-> "", at |-> "",
                user_id |-> UserId(req.session_key_encoded),
                api_key |-> ApiKey(req.session_key_encoded) ]
    /\ hpc' = At("decoded")
    /\ UNCHANGED << routerVars, adapterVars, instUser, credentials, opVars, req, calls >>

SpecAddress == InitAddress /\ [][DecodeAddress]_vars


\* ------------------------------------------------------------ the launcher

\* parser.add_argument("--host", default="0.0.0.0") in main.py and remote.py
DefaultHost == "0.0.0.0"

\* an option of a command line: left out, or given with a text
Omitted == [ given |-> FALSE, text |-> << >> ]
Option(text) == [ given |-> TRUE, text |-> text ]

\* host texts ("" is the empty text) and port numbers a user may type
Hosts == { "", "0.0.0.0", "127.0.0.1", "h" }
Ports == 0..MaxPort

\* argparse: the value of the option, through type where there is one, or the default
ParseHost(option) == IF option.given THEN option.text ELSE DefaultHost
ParsePort(option) == IF option.given THEN IntOf(option.text) ELSE DefaultPort

\* (mutant) every parsed value is handed on
TruthyAlways(value, falsy) == TRUE

\* if args.host: / if args.port: -- "" and 0 are falsy
Truthy(value, falsy) == value # falsy

InitLauncher ==
    /\ InitStores
    /\ credentials = {}
    /\ req \in { [ kind |-> "launch", host |-> h, port |-> p ] :
                     h \in { Omitted } \cup { Option(t) : t \in Hosts },
                     p \in { Omitted } \cup { Option(Str(n)) : n \in Ports } }
    /\ hpc = At("entry")
    /\ res = NoRes
    /\ calls = << >>

\* main of src/main.py (lines 15-41): parse, then write sys.argv for remote.main
LauncherMain ==
    /\ hpc = At("entry")
    /\ req.kind = "launch"
    /\ LET host == ParseHost(req.host)
           port == ParsePort(req.port)
       IN  res' = [ kind |-> "argv", error |-> "", at |-> "",
                    host |-> IF Truthy(host, "") THEN Option(host) ELSE Omitted,
                    port |-> IF Truthy(port, 0) THEN Option(Str(port)) ELSE Omitted ]
    /\ hpc' = At("remote")
    /\ UNCHANGED << routerVars, adapterVars, instUser, credentials, opVars, req, calls >>

\* main of remote.py (lines 205-216): parse sys.argv, uvicorn.run(app, host, port)
RemoteMain ==
    /\ hpc = At("remote")
    /\ res' = [ kind |-> "bound", error |-> "", at |-> "",
                host |-> ParseHost(res.host), port |-> ParsePort(res.port) ]
    /\ hpc' = At("serving")
    /\ UNCHANGED << routerVars, adapterVars, instUser, credentials, opVars, req, calls >>

SpecLauncher == InitLauncher /\ [][LauncherMain \/ RemoteMain]_vars


\* ------------------------------------------------- the Linear OAuth flow

\* An optional text is "None" (absent), "" (empty) or a text.
\* `not value` of an optional text
Not(value) == value \in { "None", "" }

OptionalTexts == { "None", "", "x" }

\* one GET on the callback server: the favicon, or a query string whose
\* "code" and "error" parameters are absent, blank or given
CallbackRequests ==
    { [ favicon |-> f, code |-> c, error |-> e ] :
          f \in BOOLEAN, c \in OptionalTexts, e \in OptionalTexts }

\* urllib.parse.parse_qs: a parameter with a blank value is left out
InQuery(value) == ~ Not(value)

\* what the token endpoint does with the POST of line 165
Exchanges == { "ok", "not_ok", "raises" }

\* the callback server of lines 111-113 and what is known of the flow so far
\*   exit  why the wait loop was left: "" while it runs
Flow(auth_code, auth_error, exit) ==
    [ kind |-> "flow", error |-> "", at |-> "",
      auth_code |-> auth_code, auth_error |-> auth_error, exit |-> exit,
      access_token |-> "None" ]

\* the flow ends: an exception, or the credentials returned
FlowEnds(kind, error, at, access_token) ==
    [ kind |-> kind, error |-> error, at |-> at,
      auth_code |-> res.auth_code, auth_error |-> res.auth_error, exit |-> res.exit,
      access_token |-> access_token ]

InitOAuth ==
    /\ InitStores
    /\ credentials = {}
    /\ req \in { [ kind |-> "oauth", client_id |-> i, client_secret |-> s, bind |-> b,
                   exchange |-> x, access_token |-> t ] :
                     i \in OptionalTexts, s \in OptionalTexts, b \in BOOLEAN,
                     x \in Exchanges, t \in OptionalTexts }
    /\ hpc = At("entry")
    /\ res = NoRes
    /\ calls = << >>

OAuthFrame == UNCHANGED << routerVars, adapterVars, instUser, credentials, opVars, req >>

\* lines 92-138: the configuration is read and tested, the callback server is
\* made (HTTPServer raises OSError when the port is taken) and started, the
\* browser is opened, wait_time = 0
OAuthStart ==
    /\ hpc = At("entry")
    /\ req.kind = "oauth"
    /\ IF Not(req.client_id) \/ Not(req.client_secret)
       THEN /\ res' = [ Flow("None", "None", "") EXCEPT
                           !.kind = "raise", !.error = "ValueError",
                           !.at = "Missing client_id or client_secret in OAuth config" ]
            /\ hpc' = At("end")
       ELSE IF ~ req.bind
       THEN /\ res' = [ Flow("None", "None", "") EXCEPT
                           !.kind = "raise", !.error = "OSError", !.at = "HTTPServer" ]
            /\ hpc' = At("end")
       ELSE /\ res' = Flow("None", "None", "")
            /\ hpc' = At("polling")
    /\ UNCHANGED calls
    /\ OAuthFrame

\* the server thread is in serve_forever: from line 118 to the shutdown of
\* line 144
Serving == hpc.at \in { "polling", "stopping" }

\* OAuthCallbackHandler.do_GET (lines 31-50) on the server thread
DoGet(g) ==
    /\ Serving
    /\ ~ g.favicon
    /\ res' = IF InQuery(g.code)
              THEN [ res EXCEPT !.auth_code = g.code ]
              ELSE IF InQuery(g.error)
              THEN [ res EXCEPT !.auth_error = g.error ]
              ELSE [ res EXCEPT !.auth_error = "No code or error received" ]
    /\ UNCHANGED << hpc, calls >>
    /\ OAuthFrame

\* lines 34-37: a favicon request is answered 204 and records nothing
DoGetFavicon(g) ==
    /\ Serving
    /\ g.favicon
    /\ UNCHANGED << hpc, res, calls >>
    /\ OAuthFrame

\* (mutant) the wait is one poll longer
KeepWaitingOneMore(wait_time) ==
    Not(res.auth_code) /\ Not(res.auth_error) /\ wait_time <= MaxWaitTime

\* line 139: the test of the while loop
KeepWaiting(wait_time) ==
    Not(res.auth_code) /\ Not(res.auth_error) /\ wait_time < MaxWaitTime

\* lines 139-141: one test of the loop, with the sleep and the count when it
\* goes round once more; hpc.step is wait_time
Poll ==
    /\ hpc.at = "polling"
    /\ IF KeepWaiting(hpc.step)
       THEN /\ hpc' = [ at |-> "polling", step |-> hpc.step + 1 ]
            /\ UNCHANGED res
       ELSE /\ hpc' = [ at |-> "stopping", step |-> hpc.step ]
            /\ res' = [ res EXCEPT !.exit =
                   IF Not(res.auth_code) /\ Not(res.auth_error) THEN "timeout" ELSE "callback" ]
    /\ UNCHANGED calls
    /\ OAuthFrame

\* (mutant) the code is looked at before the error
VerdictCodeFirst(auth_code, auth_error) ==
    IF ~ Not(auth_code) THEN "exchange"
    ELSE IF ~ Not(auth_error) THEN "Authentication failed"
    ELSE "Authentication timed out or was canceled"

\* lines 147-153: what the flow does with what the callbacks recorded
Verdict(auth_code, auth_error) ==
    IF ~ Not(auth_error) THEN "Authentication failed"
    ELSE IF Not(auth_code) THEN "Authentication timed out or was canceled"
    ELSE "exchange"

\* lines 144-153: the server is shut down and its thread joined, then the
\* error and the code are looked at
Shutdown ==
    /\ hpc.at = "stopping"
    /\ LET verdict == Verdict(res.auth_code, res.auth_error)
       IN  IF verdict = "exchange"
           THEN /\ hpc' = [ at |-> "exchange", step |-> hpc.step ]
                /\ UNCHANGED res
           ELSE /\ hpc' = [ at |-> "end", step |-> hpc.step ]
                /\ res' = FlowEnds("raise", "ValueError", verdict, "None")
    /\ UNCHANGED calls
    /\ OAuthFrame

\* (mutant) the access token of an answer that is ok is not looked at
TokenUsableIfOk(ok, access_token) == ok

\* lines 167 and 178: the answer is ok and carries an access token
TokenUsable(ok, access_token) == ok /\ ~ Not(access_token)

\* lines 155-195: the code is exchanged for a token; the credentials are saved
\* and returned
ExchangeCode ==
    /\ hpc.at = "exchange"
    /\ hpc' = [ at |-> "end", step |-> hpc.step ]
    /\ IF req.exchange = "raises"
       THEN /\ res' = FlowEnds("raise", "RequestException", "requests.post", "None")
            /\ calls' = Append(calls, "requests.post")
       ELSE IF req.exchange = "not_ok"
       THEN /\ res' = FlowEnds("raise", "ValueError", "Token exchange failed", "None")
            /\ calls' = Append(calls, "requests.post")
       ELSE IF TokenUsable(TRUE, req.access_token)
       THEN /\ res' = FlowEnds("return", "", "", req.access_token)
            /\ calls' = calls \o << "requests.post", "save_user_credentials" >>
       ELSE /\ res' = FlowEnds("raise", "ValueError",
                               "No access token received in the token response", "None")
            /\ calls' = Append(calls, "requests.post")
    /\ OAuthFrame

NextOAuth ==
    \/ OAuthStart
    \/ \E g \in CallbackRequests : DoGet(g)
    \/ \E g \in CallbackRequests : DoGetFavicon(g)
    \/ Poll
    \/ Shutdown
    \/ ExchangeCode

SpecOAuth == InitOAuth /\ [][NextOAuth]_vars

\* the main thread is scheduled: time.sleep(1) returns and the loop goes on
SpecOAuthLive == SpecOAuth /\ WF_vars(Poll)


\* ------------------------------------------------ credential resolution

\* What auth_client.get_user_credentials hands back: None, or a dict.  A key
\* of the dict is "Absent", or holds None, the empty text or a text; other
\* says whether the dict has keys besides "token" and "access_token".
NoRecord == [ given |-> FALSE, token |-> "Absent", access_token |-> "Absent", other |-> FALSE ]
StoredValues == { "Absent", "None", "", "t", "u" }
Records ==
    { NoRecord } \cup
    { [ given |-> TRUE, token |-> t, access_token |-> a, other |-> o ] :
          t \in StoredValues, a \in StoredValues, o \in BOOLEAN }

\* dict.get(key): None for a key that is not there
Get(value) == IF value = "Absent" THEN "None" ELSE value

\* `not credentials_data`: None and the empty dict
NoData(data) ==
    \/ ~ data.given
    \/ data.token = "Absent" /\ data.access_token = "Absent" /\ ~ data.other

\* (mutant) a key that holds the empty text counts as a token
UsableIfPresent(token) == token # "None"

\* `if token:` (discord/main.py lines 91 and 96), `if access_token:` (util.py
\* line 220)
Usable(token) == ~ Not(token)

CredentialsNotFound == Raise("ValueError", "Credentials not found for user")
Returned(token) == [ kind |-> "return", error |-> "", at |-> "", token |-> token ]

InitCredentials ==
    /\ InitStores
    /\ credentials = {}
    /\ req \in { [ kind |-> k, data |-> d ] :
                     k \in { "get_credentials", "get_linear_client" }, d \in Records }
    /\ hpc = At("entry")
    /\ res = NoRes
    /\ calls = << >>

\* get_credentials of the Discord adapter (lines 73-99)
GetCredentials ==
    /\ hpc = At("entry")
    /\ req.kind = "get_credentials"
    /\ res' = IF NoData(req.data) THEN CredentialsNotFound
              ELSE IF Usable(Get(req.data.token)) THEN Returned(Get(req.data.token))
              ELSE IF Usable(Get(req.data.access_token))
                   THEN Returned(Get(req.data.access_token))
              ELSE CredentialsNotFound
    /\ hpc' = At("resolved")
    /\ UNCHANGED << routerVars, adapterVars, instUser, credentials, opVars, req, calls >>

\* get_linear_client (util.py lines 198-223): the client is made of the access
\* token
GetLinearClient ==
    /\ hpc = At("entry")
    /\ req.kind = "get_linear_client"
    /\ res' = IF NoData(req.data) THEN CredentialsNotFound
              ELSE IF Usable(Get(req.data.access_token))
                   THEN Returned(Get(req.data.access_token))
              ELSE CredentialsNotFound
    /\ hpc' = At("resolved")
    /\ UNCHANGED << routerVars, adapterVars, instUser, credentials, opVars, req, calls >>

SpecCredentials == InitCredentials /\ [][GetCredentials \/ GetLinearClient]_vars


\* ================================================================ claims

Live(c) == pc[c] \in {"bound", "streaming"}
Ended(c) == pc[c] \in {"closed", "aborted", "failed"}

\* C1 as stated: the adapter factory is invoked at most once for every session
\* key, and every connection of the key runs against the instance stored for it.
C1_FactoryInvokedAtMostOnce ==
    /\ \A k \in DOMAIN factoryCalls : factoryCalls[k] <= 1
    /\ \A c \in Conns : Live(c) =>
          /\ connKey[c] \in DOMAIN user_server_instances
          /\ connInst[c] = user_server_instances[connKey[c]]

\* C1 amended: the adapter factory returns an instance at most once for every
\* session key (every instance ever built is the one stored under its key; the
\* factory is called again only after a call that raised), and every connection
\* that is bound or streaming runs against the instance stored under its key.
C1_OneInstancePerKey ==
    /\ NumInstances = Cardinality(DOMAIN user_server_instances)
    /\ \A k \in DOMAIN user_server_instances :
          /\ user_server_instances[k] \in 1..NumInstances
          /\ \A j \in DOMAIN user_server_instances :
                user_server_instances[j] = user_server_instances[k] => j = k
    /\ \A c \in Conns : Live(c) =>
          /\ connKey[c] \in DOMAIN user_server_instances
          /\ connInst[c] = user_server_instances[connKey[c]]

\* two connections of one key streaming at once on the one instance the single
\* factory call of that key returned
C1_Witness ==
    \E c \in Conns, d \in Conns :
        /\ c # d
        /\ pc[c] = "streaming" /\ pc[d] = "streaming"
        /\ connKey[c] = connKey[d]
        /\ connInst[c] = connInst[d]
        /\ factoryCalls[connKey[c]] = 1

\* C2: while a connection of a session key is streaming, no second connection
\* of that key gets to stream: two connections never drive one adapter instance.
C2_SecondConnectionRejected ==
    \A c \in Conns, d \in Conns :
        (c # d /\ pc[c] = "streaming" /\ pc[d] = "streaming") => connInst[c] # connInst[d]

\* C3: a connection goes idle -> bound (key derived, instance of the key bound)
\* -> streaming, and when a streaming connection ends its key has no transport
\* entry any more while the store still holds the instance it ran against.
C3_ConnectionLifecycle ==
    [][ \A c \in Conns :
          /\ (pc[c] # "bound" /\ pc'[c] = "bound") =>
                /\ pc[c] = "idle"
                /\ connKey'[c] # NoKey
                /\ connKey'[c] \in DOMAIN user_server_instances'
                /\ connInst'[c] = user_server_instances'[connKey'[c]]
          /\ (pc[c] # "streaming" /\ pc'[c] = "streaming") =>
                /\ pc[c] = "bound"
                /\ connKey'[c] = connKey[c] /\ connInst'[c] = connInst[c]
          /\ (pc[c] # "closed" /\ pc'[c] = "closed") =>
                /\ pc[c] = "streaming"
                /\ connKey[c] \notin DOMAIN user_session_transports'
                /\ connKey[c] \in DOMAIN user_server_instances'
                /\ user_server_instances'[connKey[c]] = connInst[c]
      ]_vars

\* the first connection of a key has streamed and ended: the instance is kept,
\* the transport entry is gone
C3_Witness ==
    /\ \E c \in Conns : pc[c] = "closed"
    /\ \A c \in Conns : ~ Live(c) /\ pc[c] \notin {"aborted", "failed"}
    /\ Cardinality(DOMAIN user_server_instances) = 1
    /\ DOMAIN user_session_transports = {}

\* C4: once user_server_instances[k] is set, no later step replaces or removes it.
C4_InstanceRetained ==
    [][ \A k \in DOMAIN user_server_instances :
          /\ k \in DOMAIN user_server_instances'
          /\ user_server_instances'[k] = user_server_instances[k]
      ]_vars

\* a reconnect: one connection of the key has ended, the next one streams on
\* the instance built for the first
C4_Witness ==
    \E c \in Conns, d \in Conns :
        /\ pc[c] = "closed"
        /\ pc[d] = "streaming"
        /\ NumInstances = 1
        /\ \A e \in Conns : pc[e] # "failed"
        /\ DOMAIN factoryCalls = {connKey[d]}
        /\ factoryCalls[connKey[d]] = 1

\* C5: whenever no connection of key k is live, user_session_transports has no
\* entry for k (every exit path of handle_sse releases the transport).
C5_TransportReleased ==
    \A k \in DOMAIN user_session_transports :
        \E c \in Conns : Live(c) /\ connKey[c] = k

\* C6: every session key with a registered transport has an adapter instance
\* in the store.
C6_TransportHasInstance ==
    \A k \in DOMAIN user_session_transports : k \in DOMAIN user_server_instances


Stored(a) == \E k \in DOMAIN user_server_instances : user_server_instances[k] = a
Instances == 1..NumInstances

\* C7: an adapter whose construction failed is not kept in the store: every
\* stored instance is one whose start-up has not failed, so that the key is
\* free for a later connection to construct again.
C7_NoFailedInstanceStored ==
    \A a \in Instances :
        Stored(a) => bot_task[a] \notin {"failed_credentials", "failed_start"}

\* C8: when the user has no stored credentials the failure reaches the request
\* at once (it is not left waiting for readiness), no instance stays stored
\* for the key, and once credentials exist a request of that user gets a bot.
C8_MissingCredentialsSurfaced ==
    /\ \A a \in Instances : bot_task[a] = "failed_credentials" =>
          /\ ~ Stored(a)
          /\ \A o \in Ops : ~ (opPc[o] = "waiting" /\ opInst[o] = a)
    /\ \A o \in Ops :
          (opPc[o] = "ready" /\ HasCredentials(instUser[opInst[o]])) => bot # 0

C10_UnsetForRetry ==
    [][ \A o \in Ops :
          (opPc[o] = "waiting" /\ opPc'[o] = "timeout") =>
              /\ bot_task'[opInst[o]] = "None"
      ]_vars

\* C11: no request gets past its readiness gate, to a use of the bot handle,
\* while bot_ready of its instance is unset or the bot handle is absent; this
\* covers a request that arrives while an earlier one is still waiting and a
\* request that arrives after an earlier wait has timed out.
C11_NoUseBeforeReady ==
    \A o \in Ops : opPc[o] = "ready" => (bot_ready[opInst[o]] /\ bot # 0)

\* C12: every adapter instance has a bot handle of its own: the handle an
\* instance has started, and the handle a request of an instance is about to
\* use, is the one made for that instance and for no other.
C12_OwnBotHandle ==
    /\ \A a \in Instances : bot_task[a] = "starting" => bot = a
    /\ \A o \in Ops : (opPc[o] = "ready" /\ bot # 0) => bot = opInst[o]

\* C13: the bot task of an instance is created at most once: once bot_task is
\* set it is never unset and never created again, whether the task is still
\* starting, has failed, or requests of the instance overlap.
C13_BotTaskStartedOnce ==
    [][ \A a \in Instances :
          /\ bot_task[a] # "None" => bot_task'[a] # "None"
          /\ bot_task[a] \notin {"None", "scheduled"} => bot_task'[a] # "scheduled"
      ]_vars

\* the bot task of an instance has failed and a later request of that
\* instance has passed the gate without starting another
C13_Witness ==
    \E a \in Instances, o \in Ops :
        /\ bot_task[a] \in {"failed_credentials", "failed_start"}
        /\ opPc[o] = "ready" /\ opInst[o] = a
        /\ \E q \in Ops : q < o /\ opPc[q] \in {"timeout", "fault", "done"}

\* C14: a message POST is answered 404 exactly when no transport is registered
\* under its session key; otherwise it is handed to the transport registered
\* under that same key, which is the transport of a connection of that key
\* and never one of another key.
C14_PostRouting ==
    /\ [][ posted' # posted =>
              /\ (posted'.answer = NotFound) <=>
                     (posted'.key \notin DOMAIN user_session_transports)
              /\ posted'.answer # NotFound =>
                     posted'.answer = user_session_transports[posted'.key]
        ]_vars
    /\ [](\A k \in DOMAIN user_session_transports :
             Live(user_session_transports[k]) => connKey[user_session_transports[k]] = k)

\* with the transports of two session keys registered, a POST has been handed
\* to the transport of the streaming connection of its own key
C14_Witness ==
    /\ posted # NoPost
    /\ posted.answer # NotFound
    /\ Cardinality(DOMAIN user_session_transports) = 2
    /\ pc[posted.answer] = "streaming"
    /\ connKey[posted.answer] = posted.key

\* C15: the session key is an injective function of the connection identity:
\* two connections that differ in service name, user id or api key never get
\* the same session key.
C15_KeyInjective ==
    (hpc = At("derived") /\ res.a = res.b) =>
        /\ req.a.server_name = req.b.server_name
        /\ UserId(req.a.session_key_encoded) = UserId(req.b.session_key_encoded)
        /\ ApiKey(req.a.session_key_encoded) = ApiKey(req.b.session_key_encoded)

\* the handler of the request has been left: by the timeout of the readiness
\* wait, by another exception, or by return
Finished == opPc[1] \in {"timeout", "fault", "done"}
TimedOut == opPc[1] = "timeout"
UnknownTool == Raise("ValueError", "Unknown tool")
MissingRequired == Raise("ValueError", "Missing required")

\* C16 as stated: in every adapter state call_tool ends with the unknown-tool
\* error exactly for the names list_tools does not return, and the names it
\* dispatches on are the names list_tools returns.
C16_UnknownToolInEveryState ==
    /\ DispatchNames = ListedNames
    /\ (req.kind = "call_tool" /\ Finished) =>
          ((req.name \notin ListedNames) <=> (res = UnknownTool))

\* C16 amended: a call_tool request that gets past the readiness gate ends
\* with the unknown-tool error exactly when its name is not one list_tools
\* returns, whatever state the bot is in, and before any upstream call; the
\* only other end of a request with such a name is the timeout of the
\* readiness wait.  The names dispatched on are the names listed: no unlisted
\* name reaches a branch.
C16_UnknownToolPastGate ==
    /\ DispatchNames = ListedNames
    /\ (req.kind = "call_tool" /\ hpc.at = "body") => req.name \in ListedNames
    /\ (req.kind = "call_tool" /\ hpc.at = "end") =>
          ((req.name \notin ListedNames) <=> (res = UnknownTool))
    /\ (req.kind = "call_tool" /\ req.name \notin ListedNames /\ Finished) =>
          \/ TimedOut
          \/ res = UnknownTool /\ calls = << >>

\* a name that is not listed has been refused by an adapter whose bot task
\* had failed on missing credentials
C16_Witness ==
    /\ req.kind = "call_tool"
    /\ req.name \notin ListedNames
    /\ hpc.at = "end"
    /\ res = UnknownTool
    /\ bot_task[1] = "failed_credentials"

\* the arguments are absent, or lack a key of the "required" list of the tool
LacksRequired == ~ req.arguments.given \/ \E k \in Required(req.name) : k \notin req.arguments.keys

\* C17 as stated: for every listed tool call_tool ends with the
\* missing-argument error if and only if the arguments are absent or lack a
\* required key, and no upstream call has been made by then.
C17_InvalidArgumentIff ==
    (req.kind = "call_tool" /\ req.name \in ListedNames /\ Finished) =>
        /\ (res = MissingRequired) <=> LacksRequired
        /\ res = MissingRequired => calls = << >>

\* C17 amended: for every listed tool, a call_tool request that gets past the
\* readiness gate ends with the "Missing required parameter" ValueError if and
\* only if the arguments are absent or lack a required key (an empty
\* arguments object lacks them all), and no Discord call of the tool has been
\* made by then; the only other end of a request with such arguments is the
\* timeout of the readiness wait.
C17_InvalidArgumentPastGate ==
    (req.kind = "call_tool" /\ req.name \in ListedNames) =>
        /\ hpc.at = "end" => ((res = MissingRequired) <=> LacksRequired)
        /\ res = MissingRequired => calls = << >>
        /\ hpc.at = "body" => ~ LacksRequired
        /\ (LacksRequired /\ Finished) => (TimedOut \/ res = MissingRequired)

\* assign_role with three of its four required keys has been refused
C17_Witness ==
    /\ req.kind = "call_tool"
    /\ req.name = "assign_role"
    /\ req.arguments = Arguments({"guild_id", "user_id", "role_id"})
    /\ hpc.at = "end"
    /\ res = MissingRequired
    /\ calls = << >>

\* C18: no not-found outcome of an upstream call leaves a tool or
\* read_resource as an exception: it is answered with a text.
C18_NotFoundReturnsText ==
    res.kind = "raise" => res.error # "NotFound"

\* the tools C19 names
PermissionTools == ListedNames \ { "get_user_info" }

\* C19: no permission-denied outcome of an upstream call leaves one of the
\* tools as an exception: it is answered with a text.
C19_ForbiddenReturnsText ==
    (req.kind = "call_tool" /\ req.name \in PermissionTools /\ res.kind = "raise") =>
        res.error # "Forbidden"

\* a URI without the prefix, with fewer than two path segments, or with an
\* empty channel segment
Malformed(u) ==
    \/ ~ StartsWithPrefix(u)
    \/ Len(SplitFirstSlash(RemovePrefix(u))) < 2
    \/ SplitFirstSlash(RemovePrefix(u))[2] = << >>

C21_UriRoundTrip ==
    hpc = At("decoded") =>
        /\ res.error = ""
        /\ res.guild_id = Str(req.guild)
        /\ IntOf(res.guild_id) = req.guild
        /\ res.channel_id = req.channel

\* a pair of two-digit ids, different from each other, has made the round trip
C21_Witness ==
    /\ hpc = At("decoded")
    /\ req.guild = 10
    /\ req.channel = 12
    /\ res.uri = << Prefix, "1", "0", "/", "1", "2" >>
    /\ res.channel_id = 12

\* C22: list_members works with min(1000, max(1, requested)): a request below
\* 1 gives 1, one above 1000 gives 1000, one in between is taken as it is, no
\* request gives 50; the answer never holds more members than that.
C22_ListMembersClamp ==
    (hpc = At("end") /\ req.name = "list_members") =>
        /\ ~ req.option.given => res.value = 50
        /\ (req.option.given /\ req.option.value < 1) => res.value = 1
        /\ (req.option.given /\ req.option.value > 1000) => res.value = 1000
        /\ (req.option.given /\ req.option.value >= 1 /\ req.option.value <= 1000) =>
              res.value = req.option.value
        /\ res.returned <= res.value
        /\ res.returned <= req.members

\* limit=100000 on a guild of more than 1000 members has given 1000 members
C22_Witness ==
    /\ hpc = At("end")
    /\ req.name = "list_members"
    /\ req.option = Given(100000)
    /\ req.members > 1000
    /\ res.value = 1000
    /\ res.returned = 1000

\* C23: ban_member hands a delete_message_days within [0,7] to the ban call:
\* any requested integer is clamped into that range, no request gives 0.
C23_BanDaysClamp ==
    (hpc = At("end") /\ req.name = "ban_member") =>
        /\ res.value >= 0 /\ res.value <= 7
        /\ ~ req.option.given => res.value = 0
        /\ (req.option.given /\ req.option.value < 0) => res.value = 0
        /\ (req.option.given /\ req.option.value > 7) => res.value = 7
        /\ (req.option.given /\ req.option.value >= 0 /\ req.option.value <= 7) =>
              res.value = req.option.value

\* a negative day count has been raised to 0
C23_Witness ==
    /\ hpc = At("end")
    /\ req.name = "ban_member"
    /\ req.option.given /\ req.option.value < 0
    /\ res.value = 0

\* C24: every tool that takes a page size, read_messages included, works with
\* a limit inside the adapter's range, whatever integer was requested.
C24_PageSizeClamped ==
    (hpc = At("end") /\ req.name \in { "list_members", "read_messages" }) =>
        (res.value >= ListMin /\ res.value <= ListMax)

\* C25: list_tools is static: a call makes no upstream call, does not start
\* the bot task, does not wait for readiness, changes nothing of the adapter,
\* and returns the same descriptors as every other call, also on an adapter
\* whose bot was never started.
C25_ListToolsStatic ==
    [][ (req.kind = "list_tools" /\ hpc' # hpc) =>
            /\ UNCHANGED << adapterVars, opVars, routerVars, instUser, credentials, calls >>
            /\ res'.tools = ListedTools
            /\ res.kind = "tools" => res' = res
      ]_vars

\* list_tools has answered twice on an adapter whose bot was never started
C25_Witness ==
    /\ req.kind = "list_tools"
    /\ hpc = [ at |-> "end", step |-> 2 ]
    /\ res.kind = "tools"
    /\ Len(res.tools) = 13
    /\ bot_task[1] = "None"
    /\ bot = 0

\* C26: discover_servers registers exactly the directories whose main.py loads
\* without raising and has both server and get_initialization_options; a
\* directory that fails is skipped and the ones after it are still looked at,
\* in whatever order the directories come.
C26_DiscoveryIsolated ==
    /\ req.kind = "discover" =>
          res.servers = { d \in res.seen : req.contents[d] = "adapter" }
    /\ (req.kind = "discover" /\ hpc # At("end")) =>
          \A d \in Directories \ res.seen : ENABLED DiscoverNext(d)
    /\ hpc = At("end") => res.seen = Directories

\* an adapter has been registered after a directory whose main.py raised and
\* one without get_initialization_options were skipped
C26_Witness ==
    /\ req.kind = "discover"
    /\ hpc = At("end")
    /\ \E d \in Directories, e \in Directories, f \in Directories :
          /\ req.contents[d] = "raises"
          /\ req.contents[e] = "no_options"
          /\ req.contents[f] = "adapter"
          /\ res.servers = {f}

\* C27: for "{userId}" the factory gets (userId, no api key), for
\* "{userId}:{apiKey}" it gets exactly (userId, apiKey), and the pair it gets
\* gives back the encoded key.
C27_AddressRoundTrip ==
    (req.kind = "address" /\ hpc = At("decoded")) =>
        /\ res.user_id = req.user_id
        /\ res.api_key = req.api_key
        /\ Encode(res.user_id, res.api_key) = req.session_key_encoded

\* C28: the remote server is started on the host and the port given on the
\* command line of the launcher, and on 0.0.0.0 and 8000 only for an option
\* that was left out.
C28_LauncherBindsGiven ==
    hpc = At("serving") =>
        /\ res.host = (IF req.host.given THEN req.host.text ELSE "0.0.0.0")
        /\ res.port = (IF req.port.given THEN IntOf(req.port.text) ELSE 8000)

\* C29: for every streaming connection c on session key k,
\* user_session_transports[k] is c's own transport for as long as c streams:
\* no other connection's arrival replaces it and no other connection's
\* disconnect removes it.
C29_OwnTransportWhileStreaming ==
    \A c \in Conns :
        pc[c] = "streaming" =>
            /\ connKey[c] \in DOMAIN user_session_transports
            /\ user_session_transports[connKey[c]] = c

\* a call_tool request that will be refused for its shape: a name that is not
\* a tool, or arguments that are absent or lack a required key
ShapeBad == req.kind = "call_tool" /\ (req.name \notin ListedNames \/ LacksRequired)

\* a step of the handler of the request: the gate, the end of its wait, its
\* dispatch, a place of its body
HandlerStep == opPc'[1] # opPc[1] \/ hpc' # hpc

\* C30 as stated: no step of a call_tool request that is refused for its shape
\* changes the adapter: it does not start the bot task, does not wait on
\* readiness, and makes no upstream call.
C30_ShapeRejectLeavesAdapter ==
    [][ (ShapeBad /\ HandlerStep) =>
            /\ UNCHANGED adapterVars
            /\ opPc'[1] # "waiting"
            /\ calls' = << >>
      ]_vars

\* C30 amended: a call_tool request that is refused for its shape makes no
\* upstream call and never reaches the body of a tool.  When it arrives on an
\* instance whose bot task exists already, its handler leaves the adapter
\* unchanged and does not wait.  When it arrives on an instance whose
\* bot_task is None, the gate of lines 422-424 runs before the shape is looked
\* at: the handler creates the bot task and waits on readiness, and this is
\* all it changes of the adapter.
C30_ShapeRejectPastGate ==
    [][ (ShapeBad /\ HandlerStep) =>
            /\ calls' = << >>
            /\ hpc'.at # "body"
            /\ IF opPc[1] = "idle" /\ MustStartBot(1)
               THEN /\ bot_task'[1] = "scheduled"
                    /\ opPc'[1] = "waiting"
                    /\ UNCHANGED << bot_ready, bot, onReady >>
               ELSE /\ UNCHANGED adapterVars
                    /\ opPc'[1] # "waiting"
      ]_vars

\* send_message without its content has been refused by an instance whose bot
\* was ready when the request arrived
C30_Witness ==
    /\ req.kind = "call_tool"
    /\ req.name = "send_message"
    /\ req.arguments = Arguments({"channel_id"})
    /\ hpc.at = "end"
    /\ res = MissingRequired
    /\ bot_task[1] = "starting" /\ bot_ready[1]
    /\ calls = << >>

\* C31: read_resource never ends with an exception of its own: whatever goes
\* wrong while it parses the URI, resolves the channel or reads the history
\* (not found, forbidden, any other upstream error, no bot) is handed back as
\* a text.  The only exception a read_resource request ends with is the
\* timeout of the readiness wait, and a request that finds the bot ready does
\* not end with that one either.
C31_ReadResourceNeverRaises ==
    [][ (req.kind = "read_resource" /\ HandlerStep) =>
            /\ opPc'[1] # "fault"
            /\ res'.kind # "raise"
            /\ opPc'[1] = "done" => res'.kind = "text"
            /\ bot_ready[1] => opPc'[1] # "timeout"
      ]_vars

\* the history of a channel that the ready bot may not read has been refused
\* upstream, and the request ended with a text that says so
C31_Witness ==
    /\ req.kind = "read_resource"
    /\ opPc[1] = "done"
    /\ bot_ready[1]
    /\ res = Text("Forbidden", "channel.history")
    /\ calls # << >>

Saved == \E i \in DOMAIN calls : calls[i] = "save_user_credentials"

\* C32: save_user_credentials is called only after a token exchange that
\* succeeded and returned a non-empty access token, and once.  On every other
\* way out (client id or secret missing, an error from the callback, no
\* callback within the wait, a failed exchange, no access token) the flow
\* raises ValueError and nothing is saved.
C32_SavedOnlyAfterToken ==
    /\ Saved =>
          /\ req.exchange = "ok"
          /\ req.access_token \notin { "None", "" }
          /\ res.access_token = req.access_token
          /\ res.kind = "return"
          /\ calls = << "requests.post", "save_user_credentials" >>
          /\ res.auth_error = "None" /\ res.auth_code \notin { "None", "" }
    /\ (hpc.at = "end" /\ ~ Saved) =>
          /\ res.kind = "raise"
          /\ (req.bind /\ req.exchange # "raises") => res.error = "ValueError"
    /\ (hpc.at = "end" /\ res.kind = "return") => Saved
    /\ hpc.at # "end" => ~ Saved

\* a token exchange that answered ok without an access token has ended the
\* flow with ValueError and nothing saved
C32_Witness ==
    /\ req.kind = "oauth"
    /\ hpc.at = "end"
    /\ req.exchange = "ok" /\ req.access_token = ""
    /\ res.kind = "raise" /\ res.at = "No access token received in the token response"
    /\ calls = << "requests.post" >>

\* something has been recorded by a callback
Recorded == ~ Not(res.auth_code) \/ ~ Not(res.auth_error)

\* what C33 says of the wait in every step of the flow
WaitIsBounded ==
    /\ hpc.at = "polling" => hpc.step <= MaxWaitTime
    /\ (hpc.at = "end" /\ res.kind = "return") => Not(res.auth_error)
    /\ (hpc.at \in { "exchange", "end" } /\ ~ Not(res.auth_error)) =>
          (res.kind = "raise" /\ res.at = "Authentication failed")

\* the wait ends at the first poll that finds something recorded, and nothing
\* but the 120th poll ends it otherwise
WaitEndsAtFirstPoll ==
    /\ (hpc.at = "polling" /\ hpc'.at # hpc.at) =>
          /\ hpc'.at = "stopping"
          /\ Recorded \/ hpc.step = MaxWaitTime
    /\ (hpc.at = "polling" /\ hpc'.step # hpc.step) =>
          /\ ~ Recorded
          /\ hpc'.step = hpc.step + 1
    /\ (hpc.at = "polling" /\ Recorded /\ hpc' # hpc) => hpc'.at = "stopping"

\* C33 as stated: the wait for the callback always ends: at the first poll
\* after a callback recorded a code or an error, and after 120 polls
\* otherwise, and then the flow fails with "timed out or was canceled"; a
\* recorded error makes the flow fail even when a code was recorded too.
C33_WaitEndsOrTimesOut ==
    /\ [] WaitIsBounded
    /\ [][WaitEndsAtFirstPoll]_vars
    /\ [] ((hpc.at = "end" /\ res.exit = "timeout") =>
              (res.kind = "raise" /\ res.at = "Authentication timed out or was canceled"))
    /\ (hpc.at = "polling") ~> (hpc.at = "stopping")

\* C33 amended: the wait always ends: at the first poll after a callback
\* recorded a code or an error, and after 120 polls otherwise.  The server
\* still answers callbacks between the last poll and its shutdown, and what
\* the flow does next is decided by what is recorded at the shutdown: a wait
\* that ran out fails with "timed out or was canceled" when nothing has been
\* recorded by then, fails with the recorded error when an error has, and goes
\* on to the token exchange when only a code has.  A recorded error makes the
\* flow fail even when a code was recorded too.
C33_WaitEndsVerdictAtShutdown ==
    /\ [] WaitIsBounded
    /\ [][WaitEndsAtFirstPoll]_vars
    /\ [] ((hpc.at = "end" /\ res.exit = "timeout" /\ ~ Recorded) =>
              (res.kind = "raise" /\ res.at = "Authentication timed out or was canceled"))
    /\ [] ((hpc.at = "end" /\ res.at = "Authentication timed out or was canceled") =>
              (res.exit = "timeout" /\ hpc.step = MaxWaitTime /\ ~ Recorded))
    /\ [] ((hpc.at = "exchange") => (~ Not(res.auth_code) /\ Not(res.auth_error)))
    /\ (hpc.at = "polling") ~> (hpc.at = "stopping")

\* the wait ran out after 120 polls with nothing recorded, a callback recorded
\* a code before the server was shut down, and the flow went on to the token
\* exchange and returned the credentials
C33_Witness ==
    /\ req.kind = "oauth"
    /\ hpc = [ at |-> "end", step |-> MaxWaitTime ]
    /\ res.exit = "timeout"
    /\ ~ Not(res.auth_code) /\ Not(res.auth_error)
    /\ res.kind = "return"

\* a stored value that is a token: there, not None, not empty
IsToken(value) == value \in { "t", "u" }

\* C34: credential resolution never hands back an empty or absent token.
\* Discord get_credentials returns the "token" of the record when it is a
\* non-empty text, else its "access_token" when that is one, else raises the
\* credentials-not-found error; get_linear_client makes a client of a
\* non-empty "access_token" and raises the same error otherwise (no record, an
\* empty record, a record without a usable token).
C34_TokenNeverEmpty ==
    hpc = At("resolved") =>
        /\ res.kind \in { "return", "raise" }
        /\ res.kind = "return" => IsToken(res.token)
        /\ res.kind = "raise" => res = CredentialsNotFound
        /\ req.kind = "get_credentials" =>
              res = IF IsToken(req.data.token) THEN Returned(req.data.token)
                    ELSE IF IsToken(req.data.access_token) THEN Returned(req.data.access_token)
                    ELSE CredentialsNotFound
        /\ req.kind = "get_linear_client" =>
              res = IF IsToken(req.data.access_token) THEN Returned(req.data.access_token)
                    ELSE CredentialsNotFound

\* a record whose "token" is the empty text and whose "access_token" is a text
\* has been resolved by get_credentials to the access token
C34_Witness ==
    /\ req.kind = "get_credentials"
    /\ req.data.token = "" /\ req.data.access_token = "u"
    /\ hpc = At("resolved")
    /\ res = Returned("u")

====
